---- MODULE Spec2Model ----
(***************************************************************************)
(* Model of the telegraf configuration migration tool (src/main.go and     *)
(* src/migrations/registry.go).                                            *)
(*                                                                         *)
(* A file is a sequence of byte tokens.  A token is a pair <<kind, n>>:    *)
(* NL is the newline byte, every other token stands for the run of bytes   *)
(* that makes up the content of line n (a blank line has no content).      *)
(* Tagging the content with n makes all lines of a file distinct, so the   *)
(* place a line ends up in can be observed.                                *)
(***************************************************************************)
EXTENDS Integers, Sequences, FiniteSets, Bags, TLC

\* ---- bounds of the model ----
MaxLines == 4
NumFiles == 2
MaxRegs == 2

\* ---- byte tokens ----
NL == <<"nl", 0>>

\* what a line of the input can be: a singleton table header "[agent]", a
\* plugin table header "[[inputs.cpu]]", a "key = value" line, a "# comment"
\* line, or a blank line
Kinds == {"agent", "cpu", "kv", "com", "blank"}

LineBytes(kind, n) == IF kind = "blank" THEN <<>> ELSE << <<kind, n>> >>

RECURSIVE JoinLines(_, _, _)
JoinLines(kinds, n, trailingNL) ==
    IF n > Len(kinds) THEN <<>>
    ELSE LineBytes(kinds[n], n)
         \o (IF n < Len(kinds) \/ trailingNL THEN <<NL>> ELSE <<>>)
         \o JoinLines(kinds, n + 1, trailingNL)

\* the files that can be given on the command line
Inputs ==
    { JoinLines(ks, 1, t) :
        ks \in UNION { [1..n -> Kinds] : n \in 0..MaxLines }, t \in BOOLEAN }

\* qualified names and functions the bundled catalog may register
RegNames == {"inputs.cpu", "agent"}
RegFuncs == {"m_new", "m_err"}

NilTable == [shape |-> "nil"]
NoLog == [level |-> "none", name |-> "", line |-> 0]

Perms(S) ==
    { f \in [1..Cardinality(S) -> S] : \A x \in S : \E i \in DOMAIN f : f[i] = x }

RECURSIVE Concat(_)
Concat(ss) == IF ss = <<>> THEN <<>> ELSE Head(ss) \o Concat(Tail(ss))

VARIABLES
    pc,                \* where the process is: init, read, split, assign, scan, dispatch, next, exit, panic
    PluginMigrations,  \* migrations.PluginMigrations: name -> function
    nregs,             \* number of AddPluginMigration calls made by the init functions
    fileIdx,           \* position in flag.Args() (1-based)
    data,              \* bytes of the current file
    root,              \* the parsed tree of the current file
    sections,          \* main's slice of sections
    work,              \* assignTextToSections' own slice (its parameter, reassigned)
    bufs,              \* the heap of bytes.Buffer objects, by address
    idx,               \* loop index of the running loop over sections
    lineno,
    pos,               \* the scanner's offset in data
    buf,               \* the pending-comment buffer
    out,               \* bytes written to "<filename>.migrated" of the current file
    written,           \* indices of the files whose output has been written
    logged,            \* the last line given to the logger
    exitCode

vars == <<pc, PluginMigrations, nregs, fileIdx, data, root, sections, work, bufs,
          idx, lineno, pos, buf, out, written, logged, exitCode>>

fileVars == <<data, root, sections, work, bufs, idx, lineno, pos, buf, out>>

\* ---- bufio.Scanner with the default split function (ScanLines) ----
RECURSIVE IndexOfNL(_, _)
IndexOfNL(d, p) ==
    IF p > Len(d) THEN 0 ELSE IF d[p] = NL THEN p ELSE IndexOfNL(d, p + 1)

\* one call of scanner.Scan() at offset p: the text is the line without its
\* newline; a last line without newline is returned too; at the end ok is FALSE
Scan(d, p) ==
    IF p > Len(d) THEN [ok |-> FALSE, text |-> <<>>, next |-> p]
    ELSE LET j == IndexOfNL(d, p)
         IN IF j = 0
            THEN [ok |-> TRUE, text |-> SubSeq(d, p, Len(d)), next |-> Len(d) + 1]
            ELSE [ok |-> TRUE, text |-> SubSeq(d, p, j - 1), next |-> j + 1]

\* strings.HasPrefix(strings.TrimSpace(text), "#")
IsComment(text) == text # <<>> /\ text[1][1] = "com"

\* strings.TrimSpace(text) == ""
IsBlank(text) == text = <<>>

\* ---- the document parser (external): toml.Parse ----
RECURSIVE AllLines(_, _)
AllLines(d, p) ==
    LET s == Scan(d, p)
    IN IF ~s.ok THEN <<>> ELSE <<s.text>> \o AllLines(d, s.next)

KindOf(text) == IF text = <<>> THEN "blank" ELSE text[1][1]

SetMax(S) == CHOOSE x \in S : \A y \in S : y <= x
SetMin(S) == CHOOSE x \in S : \A y \in S : x <= y

RECURSIVE AscSeq(_)
AscSeq(S) == IF S = {} THEN <<>> ELSE <<SetMin(S)>> \o AscSeq(S \ {SetMin(S)})

\* The tree of a document: every table carries its name (the last component of
\* its key), the line of its header and its keys; "[agent]" is a field of the
\* root, "[[inputs.cpu]]" an element of the list root.inputs.cpu; a key/value
\* line before the first header is a key/value field of the root.  Defining
\* the table "[agent]" twice is a parse error.
Parse(d) ==
    LET ls == AllLines(d, 1)
        n == Len(ls)
        kind(i) == KindOf(ls[i])
        hdrs == { i \in 1..n : kind(i) \in {"agent", "cpu"} }
        owner(j) == LET before == { i \in hdrs : i < j }
                    IN IF before = {} THEN 0 ELSE SetMax(before)
        Tbl(i, nm) == [shape |-> "table", Name |-> nm, Line |-> i,
                       Keys |-> { j \in 1..n : kind(j) = "kv" /\ owner(j) = i }]
        agents == { i \in hdrs : kind(i) = "agent" }
        cpus == { i \in hdrs : kind(i) = "cpu" }
        topkv == { j \in 1..n : kind(j) = "kv" /\ owner(j) = 0 }
        cpuList == [k \in 1..Cardinality(cpus) |-> Tbl(AscSeq(cpus)[k], "cpu")]
        agentF == IF agents = {} THEN <<>>
                  ELSE "agent" :> Tbl(SetMin(agents), "agent")
        inputsF == IF cpus = {} THEN <<>>
                   ELSE "inputs" :> [shape |-> "table", Name |-> "inputs",
                                     Line |-> SetMin(cpus),
                                     Fields |-> ("cpu" :> [shape |-> "tables",
                                                           list |-> cpuList])]
        kvF == [k \in { "k" \o ToString(j) : j \in topkv } |-> [shape |-> "keyvalue"]]
    IN [err |-> Cardinality(agents) > 1, Fields |-> agentF @@ inputsF @@ kvF]

\* ---- the catalog's transformation functions (external) ----
\* "m_new" returns a replacement block made from the table it is given,
\* "m_err" returns an error.
Migrate(f, content) ==
    IF f = "m_new"
    THEN [err |-> FALSE, bytes |-> << <<"new", content.Line>>, NL >>]
    ELSE [err |-> TRUE, bytes |-> <<>>]

\* ---- log.Fatalf: log the line, then os.Exit(1) ----
\* variant: the line is logged and the loop goes on with the next file
FatalfContinue(name, line) ==
    /\ logged' = [level |-> "fatal", name |-> name, line |-> line]
    /\ pc' = "next"
    /\ exitCode' = exitCode

Fatalf(name, line) ==
    /\ logged' = [level |-> "fatal", name |-> name, line |-> line]
    /\ pc' = "exit"
    /\ exitCode' = 1

\* ---- migrations.AddPluginMigration (the init functions of the catalog call it) ----
\* variant: no check of the name, a later registration replaces the earlier
AddPluginMigrationOverwrite(name, f) ==
    /\ PluginMigrations' = (name :> f) @@ PluginMigrations
    /\ pc' = pc

AddPluginMigration(name, f) ==
    IF name \in DOMAIN PluginMigrations
    THEN /\ pc' = "panic"
         /\ PluginMigrations' = PluginMigrations
    ELSE /\ PluginMigrations' = (name :> f) @@ PluginMigrations
         /\ pc' = pc

\* ---- splitToSections ----
Categories == {"inputs", "outputs", "processors", "aggregators"}

IsTable(e) == e.shape = "table"

IsTableList(e) == e.shape = "tables"

\* the type assertions of lines 33, 39 and 54
Malformed(name, elements) ==
    IF name \in Categories
    THEN \/ ~IsTable(elements)
         \/ \E plugin \in DOMAIN elements.Fields : ~IsTableList(elements.Fields[plugin])
    ELSE ~IsTable(elements)

\* variant: every pass of the loop takes the first table of the list
TableSectionsFirstOnly(name, tbls) ==
    [k \in 1..Len(tbls) |->
        [name |-> name \o "." \o tbls[1].Name, begin |-> tbls[1].Line, content |-> tbls[1]]]

\* the inner loop over one plugin's list of tables
TableSections(name, tbls) ==
    [k \in 1..Len(tbls) |->
        [name |-> name \o "." \o tbls[k].Name, begin |-> tbls[k].Line, content |-> tbls[k]]]

RECURSIVE CategorySections(_, _, _)
CategorySections(name, category, pord) ==
    IF pord = <<>> THEN <<>>
    ELSE (IF Head(pord) \in DOMAIN category.Fields
          THEN TableSections(name, category.Fields[Head(pord)].list)
          ELSE <<>>)
         \o CategorySections(name, category, Tail(pord))

FieldSections(name, elements, pord) ==
    IF name \in Categories
    THEN CategorySections(name, elements, pord)
    ELSE << [name |-> name, begin |-> elements.Line, content |-> elements] >>

\* the sections in the order the two map iterations find them: ord is the
\* order of root.Fields, pord the order of the plugins of a category
RECURSIVE Discover(_, _, _)
Discover(r, ord, pord) ==
    IF ord = <<>> THEN <<>>
    ELSE FieldSections(Head(ord), r.Fields[Head(ord)], pord) \o Discover(r, Tail(ord), pord)

\* raw: &bytes.Buffer{} : the k-th section found owns the k-th buffer
WithBuffers(secs) ==
    [k \in 1..Len(secs) |-> [name |-> secs[k].name, begin |-> secs[k].begin,
                             content |-> secs[k].content, raw |-> k]]

RECURSIVE InsertStable(_, _)
InsertStable(sorted, s) ==
    IF sorted = <<>> THEN <<s>>
    ELSE IF s.begin < Head(sorted).begin
         THEN <<s>> \o sorted
         ELSE <<Head(sorted)>> \o InsertStable(Tail(sorted), s)

\* variant: the list stays in the order of discovery
SortSliceStableNone(secs) == secs

\* sort.SliceStable(sections, less) with less(i, j) = sections[i].begin < sections[j].begin
RECURSIVE SortSliceStable(_)
SortSliceStable(secs) ==
    IF secs = <<>> THEN <<>>
    ELSE InsertStable(SortSliceStable(SubSeq(secs, 1, Len(secs) - 1)), secs[Len(secs)])

splitToSections(r, ord, pord) == SortSliceStable(WithBuffers(Discover(r, ord, pord)))

PluginNames(r) ==
    UNION { DOMAIN r.Fields[c].Fields :
              c \in { n \in DOMAIN r.Fields : n \in Categories /\ IsTable(r.Fields[n]) } }

\* ---- assignTextToSections ----
HeaderSection(addr) == [name |-> "header", begin |-> 0, content |-> NilTable, raw |-> addr]

\* variant: the pending comments go to the section before the boundary
BoundaryFlushToCurrent(w, i, b, heap) ==
    IF b # <<>> THEN [heap EXCEPT ![w[i + 1].raw] = @ \o b] ELSE heap

\* variant: the pending comments are dropped at the boundary
BoundaryFlushDropped(w, i, b, heap) == heap

\* lines 117-122: a non-empty pending-comment buffer goes to the next section

BoundaryFlush(w, i, b, heap) ==
    IF b # <<>> THEN [heap EXCEPT ![w[i + 2].raw] = @ \o b] ELSE heap

\* ---- the migration of one section (lines 198-203) ----
\* variant: the returned bytes are written after the text the buffer holds
ReplaceRawAppend(secs, heap, i, result) ==
    [sections |-> secs, bufs |-> [heap EXCEPT ![secs[i].raw] = @ \o result]]

\* s.raw = bytes.NewBuffer(result); sections[idx] = s
ReplaceRaw(secs, heap, i, result) ==
    [sections |-> [secs EXCEPT ![i].raw = Len(heap) + 1], bufs |-> Append(heap, result)]

RawText(secs, heap, i) == heap[secs[i].raw]

RawTexts(secs, heap) == [i \in 1..Len(secs) |-> heap[secs[i].raw]]

\* ---- the state machine ----
Init ==
    /\ pc = "init"
    /\ PluginMigrations = <<>>
    /\ nregs = 0
    /\ fileIdx = 1
    /\ data = <<>>
    /\ root = [err |-> FALSE, Fields |-> <<>>]
    /\ sections = <<>>
    /\ work = <<>>
    /\ bufs = <<>>
    /\ idx = 0
    /\ lineno = 0
    /\ pos = 1
    /\ buf = <<>>
    /\ out = <<>>
    /\ written = {}
    /\ logged = NoLog
    /\ exitCode = 0

\* package initialisation (import of migrations/all, main.go:18): one init
\* function of the catalog registers a migration
Register ==
    /\ pc = "init"
    /\ nregs < MaxRegs
    /\ \E name \in RegNames, f \in RegFuncs : AddPluginMigration(name, f)
    /\ nregs' = nregs + 1
    /\ logged' = NoLog
    /\ UNCHANGED <<fileIdx, fileVars, written, exitCode>>

\* main starts: flag.Parse, NumFiles file arguments
StartMain ==
    /\ pc = "init"
    /\ pc' = "read"
    /\ logged' = NoLog
    /\ UNCHANGED <<PluginMigrations, nregs, fileIdx, fileVars, written, exitCode>>

\* os.ReadFile and toml.Parse of the next file (lines 168-178)
ReadParse ==
    /\ pc = "read"
    /\ fileIdx <= NumFiles
    /\ \E d \in Inputs :
         /\ data' = d
         /\ IF Parse(d).err
            THEN Fatalf("parse", 0) /\ root' = root
            ELSE /\ root' = Parse(d)
                 /\ pc' = "split"
                 /\ logged' = NoLog
                 /\ exitCode' = exitCode
    /\ UNCHANGED <<PluginMigrations, nregs, fileIdx, sections, work, bufs, idx,
                   lineno, pos, buf, out, written>>

\* the loop over flag.Args() is exhausted: main returns
MainReturn ==
    /\ pc = "read"
    /\ fileIdx > NumFiles
    /\ pc' = "exit"
    /\ exitCode' = 0
    /\ logged' = NoLog
    /\ UNCHANGED <<PluginMigrations, nregs, fileIdx, fileVars, written>>

\* sections := splitToSections(root) and the check of lines 183-185
Split ==
    /\ pc = "split"
    /\ \E ord \in Perms(DOMAIN root.Fields) :
         LET bad == { k \in 1..Len(ord) : Malformed(ord[k], root.Fields[ord[k]]) }
         IN IF bad # {}
            THEN /\ Fatalf(ord[SetMin(bad)], 0)
                 /\ UNCHANGED <<sections, bufs>>
            ELSE \E pord \in Perms(PluginNames(root)) :
                   LET secs == splitToSections(root, ord, pord)
                   IN IF Len(secs) = 0
                      THEN /\ Fatalf("no TOML configuration found", 0)
                           /\ UNCHANGED <<sections, bufs>>
                      ELSE /\ sections' = secs
                           /\ bufs' = [k \in 1..Len(secs) |-> <<>>]
                           /\ pc' = "assign"
                           /\ logged' = NoLog
                           /\ exitCode' = exitCode
    /\ UNCHANGED <<PluginMigrations, nregs, fileIdx, data, root, work, idx,
                   lineno, pos, buf, out, written>>

\* assignTextToSections is called; lines 76-85
AssignBegin ==
    /\ pc = "assign"
    /\ IF sections[1].begin > 0
       THEN /\ work' = <<HeaderSection(Len(bufs) + 1)>> \o sections
            /\ bufs' = Append(bufs, <<>>)
       ELSE /\ work' = sections
            /\ bufs' = bufs
    /\ idx' = 0
    /\ lineno' = 0
    /\ pos' = 1
    /\ buf' = <<>>
    /\ pc' = "scan"
    /\ logged' = NoLog
    /\ UNCHANGED <<PluginMigrations, nregs, fileIdx, data, root, sections, out,
                   written, exitCode>>

\* one pass of the inner loop (lines 88-110): a line before the next section
ScanLine ==
    /\ pc = "scan"
    /\ idx < Len(work) - 1
    /\ lineno < work[idx + 2].begin - 1
    /\ Scan(data, pos).ok
    /\ LET text == Scan(data, pos).text
           cur == work[idx + 1].raw
       IN IF IsComment(text)
          THEN /\ buf' = buf \o text \o <<NL>>
               /\ bufs' = bufs
          ELSE IF IsBlank(text) /\ buf # <<>>
               THEN /\ bufs' = [bufs EXCEPT ![cur] = @ \o buf \o text \o <<NL>>]
                    /\ buf' = <<>>
               ELSE /\ bufs' = [bufs EXCEPT ![cur] = @ \o text \o <<NL>>]
                    /\ buf' = buf
    /\ lineno' = lineno + 1
    /\ pos' = Scan(data, pos).next
    /\ logged' = NoLog
    /\ UNCHANGED <<pc, PluginMigrations, nregs, fileIdx, data, root, sections, work,
                   idx, out, written, exitCode>>

\* the inner loop ends (its condition fails or the scanner is at the end):
\* lines 111-123, then the next pass of the outer loop with a fresh buffer
Boundary ==
    /\ pc = "scan"
    /\ idx < Len(work) - 1
    /\ \/ lineno >= work[idx + 2].begin - 1
       \/ ~Scan(data, pos).ok
    /\ bufs' = BoundaryFlush(work, idx, buf, bufs)
    /\ buf' = <<>>
    /\ idx' = idx + 1
    /\ logged' = NoLog
    /\ UNCHANGED <<pc, PluginMigrations, nregs, fileIdx, data, root, sections, work,
                   lineno, pos, out, written, exitCode>>

\* one pass of the last loop (lines 125-128): the rest goes to the last section
RestLine ==
    /\ pc = "scan"
    /\ idx = Len(work) - 1
    /\ Scan(data, pos).ok
    /\ bufs' = [bufs EXCEPT ![work[Len(work)].raw] = @ \o Scan(data, pos).text \o <<NL>>]
    /\ pos' = Scan(data, pos).next
    /\ logged' = NoLog
    /\ UNCHANGED <<pc, PluginMigrations, nregs, fileIdx, data, root, sections, work,
                   idx, lineno, buf, out, written, exitCode>>

\* assignTextToSections returns; its slice is gone, main goes on with its own
AssignReturn ==
    /\ pc = "scan"
    /\ idx = Len(work) - 1
    /\ ~Scan(data, pos).ok
    /\ work' = <<>>
    /\ idx' = 0
    /\ pc' = "dispatch"
    /\ logged' = NoLog
    /\ UNCHANGED <<PluginMigrations, nregs, fileIdx, data, root, sections, bufs,
                   lineno, pos, buf, out, written, exitCode>>

\* one pass of the migration loop (lines 191-203)
DispatchStep ==
    /\ pc = "dispatch"
    /\ idx < Len(sections)
    /\ LET s == sections[idx + 1]
       IN IF s.name \notin DOMAIN PluginMigrations
          THEN /\ idx' = idx + 1
               /\ logged' = NoLog
               /\ UNCHANGED <<pc, sections, bufs, exitCode>>
          ELSE LET result == Migrate(PluginMigrations[s.name], s.content)
               IN IF result.err
                  THEN /\ Fatalf(s.name, s.begin)
                       /\ UNCHANGED <<sections, bufs, idx>>
                  ELSE LET new == ReplaceRaw(sections, bufs, idx + 1, result.bytes)
                       IN /\ sections' = new.sections
                          /\ bufs' = new.bufs
                          /\ idx' = idx + 1
                          /\ logged' = [level |-> "info", name |-> s.name, line |-> s.begin]
                          /\ UNCHANGED <<pc, exitCode>>
    /\ UNCHANGED <<PluginMigrations, nregs, fileIdx, data, root, work, lineno, pos,
                   buf, out, written>>

\* the output file is written (lines 223-235); WriteTo drains each buffer
WriteOutput ==
    /\ pc = "dispatch"
    /\ idx = Len(sections)
    /\ out' = Concat(RawTexts(sections, bufs))
    /\ bufs' = [a \in DOMAIN bufs |->
                  IF \E i \in 1..Len(sections) : sections[i].raw = a THEN <<>> ELSE bufs[a]]
    /\ written' = written \cup {fileIdx}
    /\ pc' = "next"
    /\ logged' = NoLog
    /\ UNCHANGED <<PluginMigrations, nregs, fileIdx, data, root, sections, work, idx,
                   lineno, pos, buf, exitCode>>

\* the next pass of the loop over flag.Args(): the variables of the pass are new
NextFile ==
    /\ pc = "next"
    /\ fileIdx' = fileIdx + 1
    /\ data' = <<>>
    /\ root' = [err |-> FALSE, Fields |-> <<>>]
    /\ sections' = <<>>
    /\ work' = <<>>
    /\ bufs' = <<>>
    /\ idx' = 0
    /\ lineno' = 0
    /\ pos' = 1
    /\ buf' = <<>>
    /\ out' = <<>>
    /\ pc' = "read"
    /\ logged' = NoLog
    /\ UNCHANGED <<PluginMigrations, nregs, written, exitCode>>

Next ==
    \/ Register
    \/ StartMain
    \/ ReadParse
    \/ MainReturn
    \/ Split
    \/ AssignBegin
    \/ ScanLine
    \/ Boundary
    \/ RestLine
    \/ AssignReturn
    \/ DispatchStep
    \/ WriteOutput
    \/ NextFile

Spec == Init /\ [][Next]_vars

\* ---- what the properties speak about ----
\* main holds the sections of the current file
Staged == pc \in {"assign", "scan", "dispatch", "next"}

\* assignTextToSections has read the whole file and is about to return
ReconDone == pc = "scan" /\ idx = Len(work) - 1 /\ ~Scan(data, pos).ok

\* the dispatch loop has visited every section
DispatchDone == pc = "dispatch" /\ idx = Len(sections)

Registered(name) == name \in DOMAIN PluginMigrations

SrcLines == AllLines(data, 1)

HeaderLines == { j \in 1..Len(SrcLines) : KindOf(SrcLines[j]) \in {"agent", "cpu"} }

PosIn(s, t) ==
    IF \E p \in DOMAIN s : s[p] = t THEN CHOOSE p \in DOMAIN s : s[p] = t ELSE 0

BagOfSeq(s) ==
    [x \in { s[i] : i \in DOMAIN s } |-> Cardinality({ i \in DOMAIN s : s[i] = x })]

\* the first line after comment line c that is not a comment line
RECURSIVE BlockEnd(_, _)
BlockEnd(ls, c) ==
    IF c + 1 > Len(ls) \/ KindOf(ls[c + 1]) # "com" THEN c + 1 ELSE BlockEnd(ls, c + 1)

\* the section of secs that line j lies in (0: before the first)
OwnerOf(secs, j) ==
    LET S == { i \in 1..Len(secs) : secs[i].begin <= j }
    IN IF S = {} THEN 0
       ELSE CHOOSE i \in S : \A k \in S : secs[k].begin <= secs[i].begin

\* the lines that lie in no registered section's range [begin, next begin):
\* the lines before the first section and those of the unregistered sections
OtherLines ==
    { j \in 1..Len(SrcLines) :
        LET o == OwnerOf(sections, j)
        IN o = 0 \/ ~Registered(sections[o].name) }

OtherTokens == { SrcLines[j][1] : j \in { k \in OtherLines : SrcLines[k] # <<>> } }

\* s without the tokens that are not in T
Restrict(s, T) == LET keep(t) == t \in T IN SelectSeq(s, keep)

\* ---- C1 ----
\* C1 (reconstruction round trip): when no section of the file has a
\* registered migration, the sections' rawText after reconstruction, put
\* together in list order, is the file byte for byte, and so is the output.
C1_RoundTrip ==
    (\A i \in 1..Len(sections) : ~Registered(sections[i].name)) =>
        /\ (pc = "dispatch" /\ idx = 0) => Concat(RawTexts(sections, bufs)) = data
        /\ pc = "next" => out = data

\* ---- C2 ----
\* C2 (end-to-end scenario B): when a section of the file has a registered
\* migration, every line outside the migrated sections' own lines, a comment
\* directly above a migrated header included, is still in the output, in
\* the order of the input.
C2_OnlyMigratedReplaced ==
    (pc = "next" /\ \E i \in 1..Len(sections) : Registered(sections[i].name)) =>
        Restrict(out, OtherTokens) = Restrict(data, OtherTokens)

\* ---- C4 ----
\* C4 (header capture): when the first recognized section starts after line 1,
\* the list that is dispatched and written begins with the section "header",
\* begin 0, whose rawText holds every line before the first recognized section.
C4_HeaderCaptured ==
    (DispatchDone /\ HeaderLines # {} /\ SetMin(HeaderLines) > 1) =>
        /\ sections[1].name = "header"
        /\ sections[1].begin = 0
        /\ \A j \in 1..(SetMin(HeaderLines) - 1) :
             SrcLines[j] # <<>> => PosIn(RawText(sections, bufs, 1), SrcLines[j][1]) > 0

\* ---- C3 ----
\* C3 (dispatch frame): a pass of the dispatch loop leaves the rawText of
\* every section it is not at as it was, leaves the rawText of its own section
\* as it was when the name is not registered, and makes it exactly the bytes
\* the migration returned when it is; name, begin and content of every
\* section and the number and order of the sections stay; so when the output
\* is written every registered section holds exactly its migration's bytes.
C3_DispatchFrame ==
    [][ /\ (pc = "dispatch" /\ pc' = "dispatch") =>
             /\ Len(sections') = Len(sections)
             /\ \A k \in 1..Len(sections) :
                  /\ sections'[k].name = sections[k].name
                  /\ sections'[k].begin = sections[k].begin
                  /\ sections'[k].content = sections[k].content
                  /\ RawText(sections', bufs', k) =
                        IF k = idx + 1 /\ Registered(sections[k].name)
                        THEN Migrate(PluginMigrations[sections[k].name],
                                     sections[k].content).bytes
                        ELSE RawText(sections, bufs, k)
        /\ (pc = "dispatch" /\ pc' = "next") =>
             \A k \in 1..Len(sections) :
                Registered(sections[k].name) =>
                   RawText(sections, bufs, k) =
                      Migrate(PluginMigrations[sections[k].name], sections[k].content).bytes
      ]_vars

\* the loop is over a file with a migrated and an untouched section
C3_Witness ==
    /\ DispatchDone
    /\ \E k \in 1..Len(sections) :
         /\ Registered(sections[k].name)
         /\ RawText(sections, bufs, k) = << <<"new", sections[k].begin>>, NL >>
    /\ \E k \in 1..Len(sections) :
         /\ ~Registered(sections[k].name)
         /\ Len(RawText(sections, bufs, k)) > 2

\* ---- C5 ----
\* comment line c lies between the begin lines of work[k] and work[k + 1]
InPair(k, c) ==
    /\ KindOf(SrcLines[c]) = "com"
    /\ work[k].begin <= c
    /\ c < work[k + 1].begin

\* the comment block of c ends at a blank line before the next begin line
TrailsBlank(k, c) ==
    /\ BlockEnd(SrcLines, c) < work[k + 1].begin
    /\ KindOf(SrcLines[BlockEnd(SrcLines, c)]) = "blank"

\* the comment block of c runs up to the line before the next begin line
RunsToHeader(k, c) == BlockEnd(SrcLines, c) = work[k + 1].begin

\* C5 (comment attachment): when reconstruction is done, for every two
\* consecutive sections, a comment of a block that a blank line follows is in
\* the preceding section's rawText, its block directly followed there by the
\* blank line, and a comment of a block that runs up to the next begin line is
\* in the following section's rawText, ahead of that section's header line.
C5_CommentAttachment ==
    ReconDone =>
        \A k \in 1..(Len(work) - 1) : \A c \in 1..Len(SrcLines) :
            InPair(k, c) =>
                LET prev == RawText(work, bufs, k)
                    foll == RawText(work, bufs, k + 1)
                    tok == SrcLines[c][1]
                    last == SrcLines[BlockEnd(SrcLines, c) - 1][1]
                IN /\ TrailsBlank(k, c) =>
                        /\ PosIn(prev, tok) > 0
                        /\ PosIn(foll, tok) = 0
                        /\ PosIn(prev, last) >= PosIn(prev, tok)
                        /\ PosIn(prev, last) + 2 <= Len(prev)
                        /\ prev[PosIn(prev, last) + 1] = NL
                        /\ prev[PosIn(prev, last) + 2] = NL
                   /\ RunsToHeader(k, c) =>
                        /\ PosIn(prev, tok) = 0
                        /\ PosIn(foll, tok) > 0
                        /\ PosIn(foll, tok) < PosIn(foll, SrcLines[work[k + 1].begin][1])

\* reconstruction is done on a file that holds both kinds of comment block
C5_Witness ==
    /\ ReconDone
    /\ \E k \in 1..(Len(work) - 1) : \E c \in 1..Len(SrcLines) :
         InPair(k, c) /\ TrailsBlank(k, c)
    /\ \E k \in 1..(Len(work) - 1) : \E c \in 1..Len(SrcLines) :
         InPair(k, c) /\ RunsToHeader(k, c)

\* ---- C6 ----
\* C6 (at most one match): an entry of the registry, once made, stays as it
\* is; a registration call either adds one entry under a new name or, for a
\* name that is registered, panics and leaves the registry as it was; a panic
\* happens only during package initialisation, before a file is read, and
\* the registry never changes after it.
C6_AtMostOne ==
    [][ /\ \A n \in DOMAIN PluginMigrations :
             /\ n \in DOMAIN PluginMigrations'
             /\ PluginMigrations'[n] = PluginMigrations[n]
        /\ nregs' = nregs + 1 =>
             IF pc' = "panic"
             THEN PluginMigrations' = PluginMigrations
             ELSE Cardinality(DOMAIN PluginMigrations') =
                     Cardinality(DOMAIN PluginMigrations) + 1
        /\ pc' = "panic" =>
             /\ pc = "init"
             /\ nregs' = nregs + 1
             /\ data' = <<>> /\ written' = {} /\ fileIdx' = 1
        /\ pc # "init" => PluginMigrations' = PluginMigrations
      ]_vars

\* a second registration under a registered name has panicked
C6_Witness == pc = "panic" /\ DOMAIN PluginMigrations # {}

\* ---- C7 ----
\* C7 as stated (failure isolation): when a step fails for a file that is
\* not the last one (a malformed field found by the section extraction, or
\* a registered migration returning an error), the run goes on to the next
\* file.
C7_RunGoesOn ==
    (/\ logged.level = "fatal"
     /\ logged.name \notin {"parse", "no TOML configuration found"}
     /\ fileIdx < NumFiles) => pc = "next"

\* C7 as amended: a failed step ends the process with status 1; the output of
\* the failing file and of every file after it is never written.
C7_FatalEndsRun ==
    logged.level = "fatal" =>
        /\ pc = "exit"
        /\ exitCode = 1
        /\ \A j \in fileIdx..NumFiles : j \notin written

\* a registered migration has failed in a file that is not the last one
C7_Witness ==
    /\ logged.level = "fatal"
    /\ logged.line > 0
    /\ fileIdx < NumFiles
    /\ pc = "exit"

\* ---- C8 ----
\* the key/value lines of the table whose header is line j of the lines ls
KeysOf(ls, j) ==
    { i \in (j + 1)..Len(ls) :
        /\ KindOf(ls[i]) = "kv"
        /\ \A h \in (j + 1)..(i - 1) : KindOf(ls[h]) \notin {"agent", "cpu"} }

\* C8 (multiple instances): when splitToSections has returned and while the
\* sections are dispatched, every "[[inputs.cpu]]" line of the file has one
\* section of its own, named "inputs.cpu", with that line as begin, that
\* table as content and a buffer of its own; the dispatch loop, at a
\* registered occurrence, logs that occurrence and puts in its rawText what
\* the migration returns for that occurrence's own content, and the
\* occurrences it has not reached yet still hold their own buffer.
C8_MultipleInstances ==
    /\ pc \in {"assign", "dispatch"} =>
         /\ LET ls == SrcLines
            IN \A j \in 1..Len(ls) :
                 KindOf(ls[j]) = "cpu" =>
                    \E i \in 1..Len(sections) :
                       /\ sections[i].begin = j
                       /\ sections[i].name = "inputs.cpu"
                       /\ sections[i].content.Line = j
                       /\ sections[i].content.Keys = KeysOf(ls, j)
                       /\ \A k \in 1..Len(sections) : sections[k].begin = j => k = i
         /\ \A i, k \in 1..Len(sections) : sections[i].raw = sections[k].raw => i = k
    /\ pc = "dispatch" =>
         /\ (idx >= 1 /\ Registered(sections[idx].name)) =>
               logged = [level |-> "info", name |-> sections[idx].name,
                         line |-> sections[idx].begin]
         /\ \A i \in 1..Len(sections) :
               (Registered(sections[i].name) /\ i <= idx) =>
                  RawText(sections, bufs, i) =
                     Migrate(PluginMigrations[sections[i].name], sections[i].content).bytes
         /\ \A i \in 1..Len(sections) :
               (sections[i].name = "inputs.cpu" /\ i > idx) =>
                  PosIn(RawText(sections, bufs, i), <<"cpu", sections[i].begin>>) > 0

\* two occurrences of the plugin have been migrated, each to its own block
C8_Witness ==
    /\ DispatchDone
    /\ Registered("inputs.cpu")
    /\ \E i, k \in 1..Len(sections) :
         /\ i # k
         /\ sections[i].name = "inputs.cpu"
         /\ sections[k].name = "inputs.cpu"
         /\ sections[i].content.Keys # sections[k].content.Keys
         /\ RawText(sections, bufs, i) # RawText(sections, bufs, k)

\* ---- C9 ----
Ascending(secs) ==
    \A i, k \in 1..Len(secs) : i < k => secs[i].begin < secs[k].begin

\* C9 (section order): whatever order the fields are found in, the list that
\* splitToSections returns has one section for every table header line of
\* the file, in ascending order of begin; no later step changes that order,
\* and the output is the rawText of the sections, each once, in list order.
C9_SectionOrder ==
    [][ /\ (pc = "split" /\ pc' = "assign") =>
             /\ Ascending(sections')
             /\ { sections'[i].begin : i \in 1..Len(sections') } = HeaderLines
             /\ \A i \in 1..Len(sections') :
                  sections'[i].name =
                     IF KindOf(SrcLines[sections'[i].begin]) = "cpu"
                     THEN "inputs.cpu" ELSE "agent"
        /\ (Staged /\ pc' \in {"scan", "dispatch", "next"}) =>
             [i \in 1..Len(sections') |-> sections'[i].begin] =
                [i \in 1..Len(sections) |-> sections[i].begin]
        /\ (pc = "dispatch" /\ pc' = "next") =>
             out' = Concat([i \in 1..Len(sections) |-> RawText(sections, bufs, i)])
      ]_vars

\* splitToSections has returned a list whose first section was not the
\* first one found: the sort has moved it
C9_Witness ==
    /\ pc = "assign"
    /\ Len(sections) >= 2
    /\ sections[1].raw # 1

\* ---- C10 ----
\* the content tokens of the file
SrcTokens == { data[p] : p \in { q \in DOMAIN data : data[q] # NL } }

\* the places, over all sections of work, where token t has been written
PlacesOf(t) ==
    UNION { { <<k, p>> : p \in { q \in DOMAIN RawText(work, bufs, k) :
                                   RawText(work, bufs, k)[q] = t } } :
            k \in 1..Len(work) }

\* C10 (line conservation): the pending-comment buffer is empty whenever the
\* loop stands at a section boundary and when reconstruction is done; then
\* every line of the file has been written once, to one section of the list
\* the function works on, and the lines of all rawText together are the
\* lines of the file, as many times each.
C10_LineConservation ==
    /\ (pc = "scan" /\ idx >= 1 /\ lineno < work[idx + 1].begin) => buf = <<>>
    /\ ReconDone =>
         /\ buf = <<>>
         /\ \A t \in SrcTokens : Cardinality(PlacesOf(t)) = 1
         /\ BagOfSeq(AllLines(Concat(RawTexts(work, bufs)), 1)) = BagOfSeq(SrcLines)

\* reconstruction is done, over the header section and two more, with a
\* comment written after a line that follows it in the file
C10_Witness ==
    /\ ReconDone
    /\ work[1].name = "header"
    /\ Len(work) >= 3
    /\ LET r == Concat(RawTexts(work, bufs))
       IN \E p, q \in DOMAIN r :
            /\ p < q
            /\ r[q][1] = "com"
            /\ r[p] # NL
            /\ r[p][2] > r[q][2]

====
